---- MODULE Spec2Model ----
(***************************************************************************)
(* A model of scrypted_bridge.py: the process start-up (main), the login   *)
(* and Socket.IO life cycle (connect_socketio), the event handlers that    *)
(* write the global scrypted_state, and the HTTP facade (do_GET) that      *)
(* reads it from another thread.                                           *)
(*                                                                         *)
(* Two threads run: the asyncio event loop (main coroutine and the event   *)
(* handlers, which never interleave with each other because the handlers   *)
(* contain no await) and the daemon HTTP thread (one request at a time).   *)
(* The two threads interleave between any two accesses of scrypted_state.  *)
(***************************************************************************)
EXTENDS Integers, Sequences, FiniteSets, TLC

(***************************************************************************)
(* Values.  A Python dict is a function from its keys; None/Some is a      *)
(* sequence of length 0/1; a string that the code parses (a URL path, a    *)
(* device id, the authorization header) is a sequence of tokens.           *)
(***************************************************************************)
EmptyDict == [k \in {} |-> k]
None == <<>>
Some(v) == <<v>>

\* Device ids the hub reports.  An id is any JSON object key, so it may
\* contain the path separator.
IdA == <<"a">>
IdAB == <<"a", "/", "b">>
\* An id the hub never reports.
IdZ == <<"z">>
DeviceIds == {IdA, IdAB}
RequestIds == DeviceIds \cup {IdZ}

\* device_info dicts a systemState payload may carry for one device.
CamInfo == [interfaces |-> <<"Camera">>, on |-> TRUE]
VidInfo == [id |-> IdZ, interfaces |-> <<"Light", "VideoCamera">>]
\* One value of the payload: a dict, or something that is not a dict.
Entry(isdict, v) == [dict |-> isdict, val |-> v]
\* What the hub sends for each device.
EntriesOf(d) ==
    IF d = IdA
    THEN {Entry(TRUE, CamInfo), Entry(TRUE, VidInfo), Entry(TRUE, EmptyDict)}
    ELSE {Entry(TRUE, CamInfo), Entry(FALSE, EmptyDict)}
Payloads ==
    UNION {{p \in [S -> UNION {EntriesOf(d) : d \in S}] :
              \A d \in S : p[d] \in EntriesOf(d)} : S \in SUBSET DeviceIds}
\* The argument of a systemState event: a dict of entries, or not a dict.
SystemStateData ==
    {[dict |-> TRUE, items |-> p] : p \in Payloads}
        \cup {[dict |-> FALSE, items |-> EmptyDict]}

\* stateChange events: (device id, property name, value).
StateChanges ==
    {[device_id |-> IdA, property_name |-> "on", value |-> FALSE],
     [device_id |-> IdAB, property_name |-> "id", value |-> IdA]}

\* time.time() readings are 1..MaxTime; last_update starts at 0.
MaxTime == 2

\* The hub's answers to POST /login.
LoginReplies ==
    {"ok_bearer", "ok_plain", "ok_noauth", "error_payload", "http_error",
     "network_error"}
HostArg == "https://hub"

VARIABLES
    mode,          \* args.mode: "full" or "test"
    has_socketio,  \* HAS_SOCKETIO
    pc,            \* position of the main thread / main coroutine
    http,          \* the HTTP thread: "none", "started", "listening", "stopped"
    conn,          \* the Socket.IO client: "disconnected", "connecting", "connected"
    requested,     \* getSystemState was emitted on the current connection
    emitted,       \* the message emitted by the step just taken, or "none"
    devices,       \* scrypted_state["devices"]
    connected,     \* scrypted_state["connected"]
    token,         \* scrypted_state["token"]
    host,          \* scrypted_state["host"]
    last_update,   \* scrypted_state["last_update"]
    h,             \* the running on_system_state handler (its for loop)
    rd,            \* the running do_GET call
    resp,          \* the response written by the step just taken, if any
    touched        \* a handler wrote devices while the current request ran

\* ollama_bridge.py, a program of its own: see the end of the module.
VARIABLES
    opc,           \* position of ollama_bridge.py's main / process_command
    proc,          \* MCPClient.proc: "none", "running", "terminated"
    request_id,    \* MCPClient.request_id
    wire,          \* the requests written to proc.stdin, in order
    argv,          \* a command was passed on the command line
    ncommands,     \* commands read so far
    messages,      \* process_command's messages list
    chats,         \* the calls of chat_with_ollama of the current command
    tool_calls,    \* assistant_message["tool_calls"] of the current command
    todo,          \* the tool calls the for loop has not reached yet
    executed,      \* the tools/call params sent for the current command
    ret            \* what process_command returned, if it has

bridgeVars ==
    <<mode, has_socketio, pc, http, conn, requested, emitted, devices,
      connected, token, host, last_update, h, rd, resp, touched>>
ollamaVars ==
    <<opc, proc, request_id, wire, argv, ncommands, messages, chats, tool_calls,
      todo, executed, ret>>
vars == <<bridgeVars, ollamaVars>>

storeVars == <<devices, connected, token, host, last_update>>

HIdle == [pc |-> "idle", todo |-> EmptyDict, stored |-> FALSE]
RdIdle ==
    [pc |-> "idle", path |-> <<>>, ids |-> {}, old |-> EmptyDict,
     todo |-> {}, size0 |-> 0, urls |-> <<>>, cookie |-> <<>>,
     fetched |-> <<>>]

Init ==
    /\ mode \in {"full", "test"}
    /\ has_socketio \in BOOLEAN
    /\ pc = "main"
    /\ http = "none"
    /\ conn = "disconnected"
    /\ requested = FALSE
    /\ emitted = "none"
    /\ devices = EmptyDict
    /\ connected = FALSE
    /\ token = None
    /\ host = None
    /\ last_update = 0
    /\ h = HIdle
    /\ rd = RdIdle
    /\ resp = <<>>
    /\ touched = FALSE
    /\ opc = "main"
    /\ proc = "none"
    /\ request_id = 0
    /\ wire = <<>>
    /\ argv = FALSE
    /\ ncommands = 0
    /\ messages = <<>>
    /\ chats = <<>>
    /\ tool_calls = <<>>
    /\ todo = <<>>
    /\ executed = <<>>
    /\ ret = None

ExitPcs == {"exit_test", "exit_login_failed", "exit_limited", "exit_sio_error"}
Exited == pc \in ExitPcs
\* The main coroutine is past sio.connect and inside the try block.
LoopPcs == {"emit_state", "sleep"}

\* The process ends when main returns: the daemon HTTP thread dies with it.
ProcessExit(to) ==
    /\ pc' = to
    /\ http' = IF http = "none" THEN "none" ELSE "stopped"
    /\ rd' = RdIdle
    /\ emitted' = "none"
    /\ resp' = <<>>
    /\ touched' = FALSE

(***************************************************************************)
(* login_to_scrypted and main                                              *)
(***************************************************************************)
\* The result of login_to_scrypted: the parsed JSON, or an exception.
login_to_scrypted(reply) ==
    CASE reply = "ok_bearer" ->
           [raised |-> FALSE, authorization |-> <<"Bearer ", "tok">>]
      [] reply = "ok_plain" -> [raised |-> FALSE, authorization |-> <<"tok">>]
      [] reply = "ok_noauth" -> [raised |-> FALSE, authorization |-> <<>>]
      [] OTHER -> [raised |-> TRUE, authorization |-> <<>>]

\* login_result.get('authorization', '').replace('Bearer ', '')
StripBearer(auth) == SelectSeq(auth, LAMBDA t : t # "Bearer ")

\* main, --mode test: only the login, then return or sys.exit(1).
main_test ==
    /\ pc = "main"
    /\ mode = "test"
    /\ \E reply \in LoginReplies : ProcessExit("exit_test")
    /\ UNCHANGED <<ollamaVars, mode, has_socketio, requested, conn, storeVars, h>>

\* main, full mode: start the HTTP thread, then run connect_socketio.
main_start_http ==
    /\ pc = "main"
    /\ mode = "full"
    /\ http' = "started"
    /\ pc' = "login"
    /\ emitted' = "none"
    /\ resp' = <<>>
    /\ UNCHANGED <<ollamaVars, mode, has_socketio, requested, conn, storeVars, h, rd, touched>>

\* run_http_server: the thread binds the port and serves.
run_http_server ==
    /\ http = "started"
    /\ ~Exited
    /\ http' = "listening"
    /\ emitted' = "none"
    /\ resp' = <<>>
    /\ UNCHANGED <<ollamaVars, mode, has_socketio, requested, pc, conn, storeVars, h, rd, touched>>

\* The login without the two assignments of its result.
login_Unstored(reply) ==
    /\ pc = "login"
    /\ pc' = IF login_to_scrypted(reply).raised THEN "login_failed"
             ELSE IF has_socketio THEN "connect" ELSE "limited"
    /\ emitted' = "none"
    /\ resp' = <<>>
    /\ UNCHANGED <<ollamaVars, mode, has_socketio, requested, http, conn, storeVars, h,
                   rd, touched>>

\* connect_socketio: the login.
login(reply) ==
    /\ pc = "login"
    /\ LET r == login_to_scrypted(reply) IN
        IF r.raised
        THEN /\ pc' = "login_failed"
             /\ UNCHANGED <<token, host>>
        ELSE /\ token' = Some(StripBearer(r.authorization))
             /\ host' = Some(HostArg)
             /\ pc' = IF has_socketio THEN "connect" ELSE "limited"
    /\ emitted' = "none"
    /\ resp' = <<>>
    /\ UNCHANGED <<ollamaVars, mode, has_socketio, requested, http, conn, devices, connected,
                   last_update, h, rd, touched>>

\* "Login failed" has been printed; connect_socketio returns and main ends.
login_failed_return ==
    /\ pc = "login_failed"
    /\ ProcessExit("exit_login_failed")
    /\ UNCHANGED <<ollamaVars, mode, has_socketio, requested, conn, storeVars, h>>

\* No python-socketio: the flag is set and connect_socketio returns.
limited_mode ==
    /\ pc = "limited"
    /\ connected' = TRUE
    /\ pc' = "limited_return"
    /\ emitted' = "none"
    /\ resp' = <<>>
    /\ UNCHANGED <<ollamaVars, mode, has_socketio, requested, http, conn, devices, token, host,
                   last_update, h, rd, touched>>

limited_return ==
    /\ pc = "limited_return"
    /\ ProcessExit("exit_limited")
    /\ UNCHANGED <<ollamaVars, mode, has_socketio, requested, conn, storeVars, h>>

(***************************************************************************)
(* connect_socketio: the Socket.IO connection and the keepalive loop.      *)
(* Handlers and the main coroutine share the event loop, so none of these  *)
(* steps runs while an on_system_state call is in its for loop.            *)
(***************************************************************************)
\* await sio.connect(...) is entered.
sio_connect_start ==
    /\ pc = "connect"
    /\ conn' = "connecting"
    /\ pc' = "connecting"
    /\ emitted' = "none"
    /\ resp' = <<>>
    /\ UNCHANGED <<ollamaVars, mode, has_socketio, requested, http, storeVars, h, rd, touched>>

\* sio.connect returns: the connect handler has set the flag.
sio_connect_ok ==
    /\ pc = "connecting"
    /\ conn' = "connected"
    /\ connected' = TRUE
    /\ pc' = "emit_state"
    /\ emitted' = "none"
    /\ resp' = <<>>
    /\ UNCHANGED <<ollamaVars, mode, has_socketio, requested, http, devices, token, host,
                   last_update, h, rd, touched>>

\* sio.connect raises (ConnectionError): caught by the except of the try.
sio_connect_fail ==
    /\ pc = "connecting"
    /\ conn' = "disconnected"
    /\ pc' = "sio_error"
    /\ emitted' = "none"
    /\ resp' = <<>>
    /\ UNCHANGED <<ollamaVars, mode, has_socketio, requested, http, storeVars, h, rd, touched>>

\* await sio.emit('getSystemState'): raises when the client is not connected.
emit_getSystemState ==
    /\ pc = "emit_state"
    /\ h.pc = "idle"
    /\ pc' = IF conn = "connected" THEN "sleep" ELSE "sio_error"
    /\ requested' = (conn = "connected")
    /\ emitted' = IF conn = "connected" THEN "getSystemState" ELSE "none"
    /\ resp' = <<>>
    /\ UNCHANGED <<ollamaVars, mode, has_socketio, http, conn, storeVars, h, rd, touched>>

\* The test without the condition: a ping at every tick.
sio_connected_Ignored == TRUE
\* sio.connected
sio_connected == conn = "connected"

\* One round of the keepalive loop: the sleep ends, then
\* `if sio.connected: await sio.emit('ping')`.
keepalive_tick ==
    /\ pc = "sleep"
    /\ h.pc = "idle"
    /\ emitted' = IF sio_connected THEN "ping" ELSE "none"
    /\ resp' = <<>>
    /\ UNCHANGED <<ollamaVars, mode, has_socketio, requested, pc, http, conn, storeVars, h, rd, touched>>

\* The transport drops: the client calls the disconnect handler.
disconnect ==
    /\ pc \in LoopPcs
    /\ h.pc = "idle"
    /\ conn = "connected"
    /\ conn' = "disconnected"
    /\ requested' = FALSE
    /\ connected' = FALSE
    /\ emitted' = "none"
    /\ resp' = <<>>
    /\ UNCHANGED <<ollamaVars, mode, has_socketio, pc, http, devices, token, host,
                   last_update, h, rd, touched>>

\* The client's own reconnection (AsyncClient's default reconnection=True)
\* runs for as long as the event loop does.
reconnect_start ==
    /\ pc \in LoopPcs
    /\ h.pc = "idle"
    /\ conn = "disconnected"
    /\ conn' = "connecting"
    /\ emitted' = "none"
    /\ resp' = <<>>
    /\ UNCHANGED <<ollamaVars, mode, has_socketio, requested, pc, http, storeVars, h, rd, touched>>

\* The reconnection succeeds: the connect handler sets the flag.
connect ==
    /\ pc \in LoopPcs
    /\ h.pc = "idle"
    /\ conn = "connecting"
    /\ conn' = "connected"
    /\ connected' = TRUE
    /\ emitted' = "none"
    /\ resp' = <<>>
    /\ UNCHANGED <<ollamaVars, mode, has_socketio, requested, pc, http, devices, token, host,
                   last_update, h, rd, touched>>

reconnect_fail ==
    /\ pc \in LoopPcs
    /\ h.pc = "idle"
    /\ conn = "connecting"
    /\ conn' = "disconnected"
    /\ emitted' = "none"
    /\ resp' = <<>>
    /\ UNCHANGED <<ollamaVars, mode, has_socketio, requested, pc, http, storeVars, h, rd, touched>>

\* "Socket.IO error" has been printed; connect_socketio returns, main ends.
sio_error_return ==
    /\ pc = "sio_error"
    /\ ProcessExit("exit_sio_error")
    /\ UNCHANGED <<ollamaVars, mode, has_socketio, requested, conn, storeVars, h>>

(***************************************************************************)
(* The event handlers.  rd.ids are the keys whose dict objects the running *)
(* request holds references to.  A reference reads through to devices[d]   *)
(* for as long as that object is the one stored under d; when               *)
(* on_system_state binds d to a new dict, the request keeps the old object, *)
(* whose contents no handler can reach any more (rd.old[d]).               *)
(***************************************************************************)
\* An event is dispatched to its handler.
EventDeliverable ==
    /\ pc \in LoopPcs
    /\ conn = "connected"
    /\ h.pc = "idle"

\* A request is between its first and its last read of devices.
Reading == rd.pc \notin {"idle", "fetch"}

\* The assignment of the id left out.
SetId_Skipped(info, id) == info

\* device_info['id'] = device_id
SetId(info, id) == [k \in DOMAIN info \cup {"id"} |->
                      IF k = "id" THEN id ELSE info[k]]

\* The assignment of a new dict holding the one record.
Upsert_Replacing(devs, id, info) == [k \in {id} |-> info]
\* scrypted_state["devices"][device_id] = device_info
Upsert(devs, id, info) == [k \in DOMAIN devs \cup {id} |->
                             IF k = id THEN info ELSE devs[k]]

\* The request's reference to the object stored under d outlives the rebind.
Detach(r, d) ==
    IF d \in r.ids /\ d \notin DOMAIN r.old /\ d \in DOMAIN devices
    THEN [r EXCEPT !.old = [k \in DOMAIN r.old \cup {d} |->
                              IF k = d THEN devices[d] ELSE r.old[k]]]
    ELSE r

Without(f, d) == [k \in DOMAIN f \ {d} |-> f[k]]

\* on_system_state is called: isinstance(data, dict), then the for loop.
\* The hub sends systemState in answer to the getSystemState of this
\* connection.
on_system_state(data) ==
    /\ EventDeliverable
    /\ requested
    /\ h' = IF data.dict
            THEN [pc |-> "for", todo |-> data.items, stored |-> FALSE]
            ELSE h
    /\ emitted' = "none"
    /\ resp' = <<>>
    /\ UNCHANGED <<ollamaVars, mode, has_socketio, requested, pc, http, conn, storeVars, rd, touched>>

\* One iteration of `for device_id, device_info in data.items()`.
on_system_state_item(d) ==
    /\ h.pc = "for"
    /\ d \in DOMAIN h.todo
    /\ IF h.todo[d].dict
       THEN /\ devices' = Upsert(devices, d, SetId(h.todo[d].val, d))
            /\ rd' = Detach(rd, d)
            /\ touched' = Reading
       ELSE UNCHANGED <<devices, rd, touched>>
    /\ h' = [h EXCEPT !.todo = Without(h.todo, d),
                      !.stored = h.stored \/ h.todo[d].dict]
    /\ emitted' = "none"
    /\ resp' = <<>>
    /\ UNCHANGED <<ollamaVars, mode, has_socketio, requested, pc, http, conn, connected, token, host,
                   last_update>>

\* The loop ends without the assignment of last_update.
on_system_state_end_Unstamped(t) ==
    /\ h.pc = "for"
    /\ DOMAIN h.todo = {}
    /\ t >= last_update
    /\ h' = HIdle
    /\ emitted' = "none"
    /\ resp' = <<>>
    /\ UNCHANGED <<ollamaVars, mode, has_socketio, requested, pc, http, conn, storeVars,
                   rd, touched>>

\* The loop is over: scrypted_state["last_update"] = time.time()
on_system_state_end(t) ==
    /\ h.pc = "for"
    /\ DOMAIN h.todo = {}
    /\ t >= last_update
    /\ last_update' = t
    /\ h' = HIdle
    /\ emitted' = "none"
    /\ resp' = <<>>
    /\ UNCHANGED <<ollamaVars, mode, has_socketio, requested, pc, http, conn, devices, connected,
                   token, host, rd, touched>>

\* The assignment without the membership test.
StateChanged_Unguarded(devs, id, p, v) ==
    [j \in DOMAIN devs \cup {id} |->
       IF j = id
       THEN [k \in (IF id \in DOMAIN devs THEN DOMAIN devs[id] ELSE {}) \cup {p} |->
               IF k = p THEN v ELSE devs[id][k]]
       ELSE devs[j]]

\* if device_id in devices: devices[device_id][property_name] = value
StateChanged(devs, id, p, v) ==
    IF id \in DOMAIN devs
    THEN [devs EXCEPT ![id] = [k \in DOMAIN devs[id] \cup {p} |->
                                 IF k = p THEN v ELSE devs[id][k]]]
    ELSE devs

on_state_change(d, p, v) ==
    /\ EventDeliverable
    /\ devices' = StateChanged(devices, d, p, v)
    /\ touched' = (touched \/ (Reading /\ d \in DOMAIN devices))
    /\ emitted' = "none"
    /\ resp' = <<>>
    /\ UNCHANGED <<ollamaVars, mode, has_socketio, requested, pc, http, conn, connected, token, host,
                   last_update, h, rd>>

(***************************************************************************)
(* The HTTP facade: ScryptedBridgeHandler.do_GET                           *)
(***************************************************************************)
\* The request paths a client forms from the documented endpoints.
StatusPath == <<"/", "status">>
DevicesPath == <<"/", "devices">>
CamerasPath == <<"/", "cameras">>
OtherPath == <<"/", "other">>
DevicePath(id, what) == <<"/", "device", "/">> \o id \o <<"/", what>>
StatePaths == {DevicePath(id, "state") : id \in RequestIds}
SnapshotPaths == {DevicePath(id, "snapshot") : id \in RequestIds}
Paths ==
    {StatusPath, DevicesPath, CamerasPath, OtherPath} \cup StatePaths
        \cup SnapshotPaths

\* str.split('/')
RECURSIVE SplitFrom(_, _, _)
SplitFrom(s, i, cur) ==
    IF i > Len(s) THEN <<cur>>
    ELSE IF s[i] = "/" THEN <<cur>> \o SplitFrom(s, i + 1, <<>>)
    ELSE SplitFrom(s, i + 1, Append(cur, s[i]))
Split(s) == SplitFrom(s, 1, <<>>)

StartsWithDevice(path) ==
    Len(path) >= 3 /\ SubSeq(path, 1, 3) = <<"/", "device", "/">>
EndsWith(path, what) ==
    Len(path) >= 2 /\ SubSeq(path, Len(path) - 1, Len(path)) = <<"/", what>>

\* The if/elif chain of do_GET.
Route(path) ==
    IF path = StatusPath THEN "status"
    ELSE IF path = DevicesPath THEN "devices"
    ELSE IF path = CamerasPath THEN "cameras"
    ELSE IF StartsWithDevice(path) /\ EndsWith(path, "state") THEN "state"
    ELSE IF StartsWithDevice(path) /\ EndsWith(path, "snapshot") THEN "snapshot"
    ELSE "unknown"

\* device_id = path.split('/')[2]
ParseDeviceId(path) == Split(path)[3]

\* `if device:` for a dict
Truthy(device) == DOMAIN device # {}

\* 'Camera' in d.get('interfaces', []) or 'VideoCamera' in d.get('interfaces', [])
Contains(list, x) == \E i \in DOMAIN list : list[i] = x
GetInterfaces(d) == IF "interfaces" \in DOMAIN d THEN d.interfaces ELSE <<>>
\* The filter with the second marker left out.
IsCamera_CameraOnly(d) == Contains(GetInterfaces(d), "Camera")
IsCamera(d) ==
    Contains(GetInterfaces(d), "Camera") \/ Contains(GetInterfaces(d), "VideoCamera")

\* The dict object the request holds for key d, as it reads now.
Deref(d) == IF d \in DOMAIN rd.old THEN rd.old[d] ELSE devices[d]

Serving == http = "listening" /\ ~Exited

\* A response leaves.  quiet records that no handler wrote devices between
\* the request's first read and this response; fetched lists the requests
\* the call has sent to the hub.
Reply(path, body, status, fetched) ==
    resp' = <<[path |-> path, status |-> status, body |-> body,
               quiet |-> ~touched, fetched |-> fetched]>>

\* send_json(data, status)
send_json(path, body, status) == Reply(path, body, status, rd.fetched)

NotFoundBody == [error |-> "Device not found"]
UnknownBody == [error |-> "Unknown endpoint"]
SnapshotFailedBody == [error |-> "Could not fetch snapshot"]
\* An exception left do_GET: the server logs it and closes the connection.
NoResponse == 0

Others == <<ollamaVars, mode, has_socketio, pc, http, conn, requested, storeVars, h>>

\* GET /status
do_GET_status ==
    /\ Serving
    /\ rd.pc = "idle"
    /\ send_json(StatusPath,
                 [connected |-> connected,
                  device_count |-> Cardinality(DOMAIN devices),
                  last_update |-> last_update], 200)
    /\ emitted' = "none"
    /\ UNCHANGED <<Others, rd, touched>>

\* GET /devices: devices = list(scrypted_state["devices"].values())
do_GET_devices_list ==
    /\ Serving
    /\ rd.pc = "idle"
    /\ rd' = [RdIdle EXCEPT !.pc = "listed", !.path = DevicesPath,
                            !.ids = DOMAIN devices]
    /\ emitted' = "none"
    /\ resp' = <<>>
    /\ touched' = FALSE
    /\ UNCHANGED Others

\* GET /devices: json.dumps of the listed dicts
do_GET_devices_send ==
    /\ rd.pc = "listed"
    /\ send_json(rd.path,
                 [devices |-> [d \in rd.ids |-> Deref(d)],
                  count |-> Cardinality(rd.ids)], 200)
    /\ rd' = RdIdle
    /\ touched' = FALSE
    /\ emitted' = "none"
    /\ UNCHANGED Others

\* GET /cameras: the list comprehension starts iterating devices.values()
do_GET_cameras_iter ==
    /\ Serving
    /\ rd.pc = "idle"
    /\ rd' = [RdIdle EXCEPT !.pc = "iter", !.path = CamerasPath,
                            !.todo = DOMAIN devices,
                            !.size0 = Cardinality(DOMAIN devices)]
    /\ emitted' = "none"
    /\ resp' = <<>>
    /\ touched' = FALSE
    /\ UNCHANGED Others

\* The iterator's next(): RuntimeError if the dict changed size, else the
\* next value is tested, or the iteration ends.
do_GET_cameras_next ==
    /\ rd.pc = "iter"
    /\ IF Cardinality(DOMAIN devices) # rd.size0
       THEN /\ send_json(rd.path, [exception |-> "RuntimeError"], NoResponse)
            /\ rd' = RdIdle
            /\ touched' = FALSE
       ELSE IF rd.todo = {}
       THEN /\ rd' = [rd EXCEPT !.pc = "filtered"]
            /\ resp' = <<>>
            /\ UNCHANGED touched
       ELSE /\ \E d \in rd.todo :
                 rd' = [rd EXCEPT !.todo = @ \ {d},
                                  !.ids = IF IsCamera(devices[d])
                                          THEN @ \cup {d} ELSE @]
            /\ resp' = <<>>
            /\ UNCHANGED touched
    /\ emitted' = "none"
    /\ UNCHANGED Others

\* GET /cameras: json.dumps of the selected dicts
do_GET_cameras_send ==
    /\ rd.pc = "filtered"
    /\ send_json(rd.path,
                 [cameras |-> [d \in rd.ids |-> Deref(d)],
                  count |-> Cardinality(rd.ids)], 200)
    /\ rd' = RdIdle
    /\ touched' = FALSE
    /\ emitted' = "none"
    /\ UNCHANGED Others

\* A lookup that inserts the key it misses, as setdefault does.
AfterGet_Inserting(devs, id) ==
    [k \in DOMAIN devs \cup {id} |-> IF k = id /\ id \notin DOMAIN devs
                                      THEN EmptyDict ELSE devs[k]]
\* The store after scrypted_state["devices"].get(device_id)
AfterGet(devs, id) == devs

LookupFrame ==
    <<ollamaVars, mode, has_socketio, pc, http, conn, requested, connected, token, host,
      last_update, h>>

\* GET /device/{id}/state: the lookup and `if device:`
do_GET_state_lookup(path) ==
    /\ Serving
    /\ rd.pc = "idle"
    /\ Route(path) = "state"
    /\ LET device_id == ParseDeviceId(path) IN
        /\ IF device_id \in DOMAIN devices /\ Truthy(devices[device_id])
           THEN /\ rd' = [RdIdle EXCEPT !.pc = "found", !.path = path,
                                        !.ids = {device_id}]
                /\ resp' = <<>>
           ELSE /\ send_json(path, NotFoundBody, 404)
                /\ rd' = RdIdle
        /\ devices' = AfterGet(devices, device_id)
    /\ touched' = FALSE
    /\ emitted' = "none"
    /\ UNCHANGED LookupFrame

\* GET /device/{id}/state: send_json(device)
do_GET_state_send ==
    /\ rd.pc = "found"
    /\ \E d \in rd.ids : send_json(rd.path, Deref(d), 200)
    /\ rd' = RdIdle
    /\ touched' = FALSE
    /\ emitted' = "none"
    /\ UNCHANGED Others

\* The hub's answers to one snapshot request: an exception of urlopen, or
\* the bytes of the body.
SnapshotThreshold == 100
Bytes(n, url) == [len |-> n, of |-> url.path[1]]
FetchResults(url) ==
    {[raised |-> TRUE, data |-> Bytes(0, url)]} \cup
    {[raised |-> FALSE, data |-> Bytes(n, url)] :
        n \in {0, SnapshotThreshold, SnapshotThreshold + 1}}

\* The test with the bound included.
Usable_AtLeast(data) == data.len > 0 /\ data.len >= SnapshotThreshold
\* if data and len(data) > 100
Usable(data) == data.len > 0 /\ data.len > SnapshotThreshold

\* The two URLs of the urls list, in its order.
SnapshotUrls(hst, tok, device_id) ==
    <<[host |-> hst,
       path |-> <<"endpoint/@scrypted/core/api", tok, "device", device_id,
                  "Camera.getSnapshot">>],
      [host |-> hst,
       path |-> <<"endpoint/@scrypted/snapshot/public", device_id>>]>>

\* f"login_user_token={token}"
Cookie(tok) == <<"login_user_token=", tok>>

\* GET /device/{id}/snapshot: the lookup, `if not device:`, the urls list
do_GET_snapshot_lookup(path) ==
    /\ Serving
    /\ rd.pc = "idle"
    /\ Route(path) = "snapshot"
    /\ LET device_id == ParseDeviceId(path) IN
        /\ IF device_id \in DOMAIN devices /\ Truthy(devices[device_id])
           THEN /\ rd' = [RdIdle EXCEPT
                            !.pc = "fetch", !.path = path,
                            !.urls = SnapshotUrls(host, token, device_id),
                            !.cookie = Cookie(token)]
                /\ resp' = <<>>
           ELSE /\ send_json(path, NotFoundBody, 404)
                /\ rd' = RdIdle
        /\ devices' = AfterGet(devices, device_id)
    /\ touched' = FALSE
    /\ emitted' = "none"
    /\ UNCHANGED LookupFrame

\* send_binary(data, content_type)
send_binary(path, data, fetched) == Reply(path, data, 200, fetched)

\* One iteration of `for url in urls`: fetch_with_cookie, then the test of
\* the data; after the last url, the 500.
do_GET_snapshot_fetch ==
    /\ rd.pc = "fetch"
    /\ LET url == Head(rd.urls) IN
        \E result \in FetchResults(url) :
          LET fetched == Append(rd.fetched,
                                [url |-> url, cookie |-> rd.cookie,
                                 result |-> result])
          IN IF ~result.raised /\ Usable(result.data)
             THEN /\ send_binary(rd.path, result.data, fetched)
                  /\ rd' = RdIdle
             ELSE IF Len(rd.urls) > 1
             THEN /\ rd' = [rd EXCEPT !.urls = Tail(@), !.fetched = fetched]
                  /\ resp' = <<>>
             ELSE /\ Reply(rd.path, SnapshotFailedBody, 500, fetched)
                  /\ rd' = RdIdle
    /\ touched' = FALSE
    /\ emitted' = "none"
    /\ UNCHANGED Others

\* Any other path
do_GET_unknown(path) ==
    /\ Serving
    /\ rd.pc = "idle"
    /\ Route(path) = "unknown"
    /\ send_json(path, UnknownBody, 404)
    /\ emitted' = "none"
    /\ UNCHANGED <<Others, rd, touched>>

(***************************************************************************)
(* The program                                                             *)
(***************************************************************************)
Next ==
    \/ main_test
    \/ main_start_http
    \/ run_http_server
    \/ \E reply \in LoginReplies : login(reply)
    \/ login_failed_return
    \/ limited_mode
    \/ limited_return
    \/ sio_connect_start
    \/ sio_connect_ok
    \/ sio_connect_fail
    \/ emit_getSystemState
    \/ keepalive_tick
    \/ disconnect
    \/ reconnect_start
    \/ connect
    \/ reconnect_fail
    \/ sio_error_return
    \/ \E data \in SystemStateData : on_system_state(data)
    \/ \E d \in DeviceIds : on_system_state_item(d)
    \/ \E t \in 1..MaxTime : on_system_state_end(t)
    \/ \E e \in StateChanges :
          on_state_change(e.device_id, e.property_name, e.value)
    \/ do_GET_status
    \/ do_GET_devices_list
    \/ do_GET_devices_send
    \/ do_GET_cameras_iter
    \/ do_GET_cameras_next
    \/ do_GET_cameras_send
    \/ \E path \in Paths : do_GET_state_lookup(path)
    \/ do_GET_state_send
    \/ \E path \in Paths : do_GET_snapshot_lookup(path)
    \/ do_GET_snapshot_fetch
    \/ \E path \in Paths : do_GET_unknown(path)

Spec == Init /\ [][Next]_vars

(***************************************************************************)
(* Properties                                                              *)
(***************************************************************************)
\* Last write wins per property: the newer dict's properties over the older's.
Merge(newer, older) ==
    [k \in DOMAIN newer \cup DOMAIN older |->
       IF k \in DOMAIN newer THEN newer[k] ELSE older[k]]
OldRecord(d) == IF d \in DOMAIN devices THEN devices[d] ELSE EmptyDict

\* C1: the store is the last-write-wins-per-property fold of the events in
\* arrival order.  Stated on the fold's step: a device of a snapshot event
\* leaves the record that has the event's properties (and its id) over the
\* record's earlier properties, a change event sets one property of a known
\* device, and a change event for an unknown device leaves the store as it is.
C1_LastWriteWinsFold ==
    [][/\ \A d \in DeviceIds :
            on_system_state_item(d) /\ h.todo[d].dict =>
                devices' = Upsert(devices, d,
                                  Merge(Merge([id |-> d], h.todo[d].val),
                                        OldRecord(d)))
       /\ \A e \in StateChanges :
            on_state_change(e.device_id, e.property_name, e.value) =>
                IF e.device_id \in DOMAIN devices
                THEN devices' = Upsert(devices, e.device_id,
                                       Merge(e.property_name :> e.value,
                                             devices[e.device_id]))
                ELSE devices' = devices]_vars

\* C2: when the login of full mode has failed, no HTTP listener is serving.
C2_NoListenerOnLoginFailure ==
    pc = "login_failed" => http # "listening"

\* C3: after a failure of the connection manager the process is still
\* running and its facade has not gone dark.
C3_FailureNeverTerminates ==
    pc \in {"sio_error", "exit_sio_error"} => ~Exited /\ http # "stopped"

\* C4: the connection moves disconnected -> connecting -> connected, an error
\* moves it to disconnected, and the connection manager, once started, never
\* stops: after an error it is still there to attempt the next connection.
ManagerRunning == pc \in {"connect", "connecting", "emit_state", "sleep"}
C4_AlwaysReconnects ==
    [][/\ ManagerRunning => ManagerRunning'
       /\ conn' # conn =>
            \/ conn = "disconnected" /\ conn' = "connecting"
            \/ conn = "connecting" /\ conn' \in {"connected", "disconnected"}
            \/ conn = "connected" /\ conn' = "disconnected"]_vars

\* C5: the listing of GET /devices is a point-in-time copy: what it will
\* serialize does not change after it was taken, and it is never taken
\* between two devices of one snapshot event.
ListedView == [d \in rd.ids |-> Deref(d)]
MidSnapshot ==
    h.pc = "for" /\ h.stored /\ \E d \in DOMAIN h.todo : h.todo[d].dict
C5_PointInTimeListing ==
    [][/\ rd.pc = "listed" /\ rd'.pc = "listed" => ListedView' = ListedView
       /\ do_GET_devices_list => ~MidSnapshot]_vars

\* C6: a reader never sees a record part-way through one update call.  Every
\* record a request can reach or has returned carries its id, an object a
\* request holds after it was replaced never changes, and one step changes a
\* stored record into the complete result of one upsert or of one property
\* assignment, or not at all.
HasId(rec) == "id" \in DOMAIN rec
UpsertResults(d) ==
    {[k \in DOMAIN e.val \cup {"id"} |-> IF k = "id" THEN d ELSE e.val[k]] :
        e \in {x \in EntriesOf(d) : x.dict}}
ApplyResults(d) ==
    {[k \in DOMAIN devices[d] \cup {e.property_name} |->
        IF k = e.property_name THEN e.value ELSE devices[d][k]] :
        e \in {x \in StateChanges : x.device_id = d}}
ReturnedRecords ==
    IF resp = <<>> \/ resp[1].status # 200 THEN {}
    ELSE IF resp[1].path = DevicesPath
         THEN {resp[1].body.devices[d] : d \in DOMAIN resp[1].body.devices}
    ELSE IF resp[1].path = CamerasPath
         THEN {resp[1].body.cameras[d] : d \in DOMAIN resp[1].body.cameras}
    ELSE IF resp[1].path \in StatePaths THEN {resp[1].body}
    ELSE {}
C6_NoPartialRecord ==
    /\ [](/\ \A d \in DOMAIN devices : HasId(devices[d])
          /\ \A d \in DOMAIN rd.old : HasId(rd.old[d])
          /\ \A rec \in ReturnedRecords : HasId(rec))
    /\ [][/\ \A d \in DOMAIN devices' :
               \/ d \in DOMAIN devices /\ devices'[d] = devices[d]
               \/ devices'[d] \in UpsertResults(d)
               \/ d \in DOMAIN devices /\ devices'[d] \in ApplyResults(d)
          /\ \A d \in DOMAIN rd.old \cap DOMAIN rd'.old :
               rd'.old[d] = rd.old[d]]_vars
\* A response that was sent although a handler wrote during the request.
C6_Witness ==
    /\ resp # <<>>
    /\ resp[1].path = DevicesPath
    /\ ~resp[1].quiet
    /\ DOMAIN resp[1].body.devices = DeviceIds

\* C7: the id field of every stored record equals its key.
C7_IdEqualsKey ==
    \A k \in DOMAIN devices : HasId(devices[k]) /\ devices[k].id = k

\* C8: a change event sets that one property of that one device, if the
\* device is in the store, and changes nothing else; for a device that is not
\* in the store it changes nothing and creates no record.
C8_ChangeEventFrame ==
    [][\A e \in StateChanges :
         on_state_change(e.device_id, e.property_name, e.value) =>
            LET d == e.device_id
                p == e.property_name
            IN /\ DOMAIN devices' = DOMAIN devices
               /\ \A k \in DOMAIN devices \ {d} : devices'[k] = devices[k]
               /\ d \in DOMAIN devices =>
                    /\ DOMAIN devices'[d] = DOMAIN devices[d] \cup {p}
                    /\ devices'[d][p] = e.value
                    /\ \A q \in DOMAIN devices[d] \ {p} :
                         devices'[d][q] = devices[d][q]
               /\ UNCHANGED <<connected, token, host, last_update>>]_vars
\* A change event has been applied to a camera and the other device, which
\* no change event was for, is in the store.
C8_Witness ==
    /\ DOMAIN devices = DeviceIds
    /\ devices[IdA] = [id |-> IdA, interfaces |-> <<"Camera">>, on |-> FALSE]
    /\ devices[IdAB].id = IdAB

\* C9: GET /device/{id}/state answers 404 "Device not found" for an id that
\* is not in the store and 200 with that device's record for an id that is.
C9_StateLookup ==
    resp # <<>> =>
        \A id \in RequestIds :
            resp[1].path = DevicePath(id, "state") =>
                IF id \in DOMAIN devices
                THEN /\ resp[1].status = 200
                     /\ resp[1].quiet => resp[1].body = devices[id]
                ELSE /\ resp[1].status = 404
                     /\ resp[1].body = NotFoundBody

\* C10: GET /cameras returns exactly the stored records whose interfaces
\* hold "Camera" or "VideoCamera"; its count is their number and is at most
\* the number of devices GET /devices counts.
HasCameraMarker(rec) ==
    /\ "interfaces" \in DOMAIN rec
    /\ \E i \in DOMAIN rec.interfaces :
         rec.interfaces[i] \in {"Camera", "VideoCamera"}
C10_CamerasSubset ==
    resp # <<>> /\ resp[1].path = CamerasPath /\ resp[1].quiet =>
        LET cams == {d \in DOMAIN devices : HasCameraMarker(devices[d])} IN
        /\ resp[1].status = 200
        /\ resp[1].body.cameras = [d \in cams |-> devices[d]]
        /\ resp[1].body.count = Cardinality(cams)
        /\ resp[1].body.count <= Cardinality(DOMAIN devices)
\* Two devices are stored and only the one that is a camera is listed.
C10_Witness ==
    /\ resp # <<>>
    /\ resp[1].path = CamerasPath
    /\ resp[1].quiet
    /\ resp[1].status = 200
    /\ DOMAIN devices = DeviceIds
    /\ DOMAIN resp[1].body.cameras = {IdAB}
    /\ resp[1].body.count = 1

\* C11: a snapshot request asks the hub's URL templates in their fixed order
\* and answers with the payload of the first one whose request succeeds with
\* more than 100 bytes; a template whose request fails or brings at most 100
\* bytes is skipped, no template is asked after the accepted one, and when
\* every template was skipped the answer is the 500 JSON error.
TemplateOrder ==
    <<"endpoint/@scrypted/core/api", "endpoint/@scrypted/snapshot/public">>
Skipped(result) == result.raised \/ result.data.len <= 100
InTemplateOrder(fetched) ==
    /\ Len(fetched) <= Len(TemplateOrder)
    /\ \A i \in 1..Len(fetched) : fetched[i].url.path[1] = TemplateOrder[i]
C12_SnapshotNotFound ==
    resp # <<>> =>
        \A id \in RequestIds :
            resp[1].path = DevicePath(id, "snapshot") =>
                /\ id \notin DOMAIN devices =>
                      /\ resp[1].status = 404
                      /\ resp[1].body = NotFoundBody
                      /\ resp[1].fetched = <<>>
                /\ resp[1].status = 500 => id \in DOMAIN devices

\* C13: every GET request ends in a structured response, a 200, a 404 or a
\* 500 with a JSON or binary body, whatever the event handlers do while it
\* runs.
C13_EveryRequestAnswered ==
    resp # <<>> => resp[1].status \in {200, 404, 500}

\* C14: no record is ever deleted.  The set of stored device ids only grows,
\* and while a snapshot event is applied the record of every device that is
\* not in the event stays as it is.
C14_RecordsNeverDeleted ==
    [][/\ DOMAIN devices \subseteq DOMAIN devices'
       /\ \A d \in DeviceIds :
            on_system_state_item(d) =>
                \A k \in DOMAIN devices \ {d} : devices'[k] = devices[k]
       /\ h.pc = "for" =>
            \A k \in DOMAIN devices \ DOMAIN h.todo :
                devices'[k] = devices[k]]_vars
\* A snapshot event has stored a record and is over, and the other device
\* still has the record a change event left: the event did not hold it.
C14_Witness ==
    /\ h.pc = "for"
    /\ h.stored
    /\ DOMAIN h.todo = {}
    /\ DOMAIN devices = DeviceIds
    /\ devices[IdAB].id = IdA

\* C15: on every connection a keepalive is emitted only after the
\* getSystemState of that connection.
C15_StateRequestedFirst ==
    emitted = "ping" => requested

\* C16: the connected flag is true only while the Socket.IO connection is
\* established.
C16_FlagTracksConnection ==
    connected => conn = "connected"

RequestStep ==
    \/ resp' # <<>>
    \/ rd'.pc # rd.pc
    \/ rd'.todo # rd.todo
    \/ rd'.urls # rd.urls
C18_FacadeReadOnly ==
    [][RequestStep => UNCHANGED <<devices, connected, token, host,
                                  last_update>>]_vars
\* A snapshot request has failed with the store holding both devices.
C18_Witness ==
    /\ resp # <<>>
    /\ resp[1].path \in SnapshotPaths
    /\ resp[1].status = 500
    /\ DOMAIN devices = DeviceIds

\* C19: the token and the host are written once, by the login, before any
\* device is stored; every snapshot request to the hub carries them.
CarriesLogin(f) ==
    /\ token # None
    /\ host # None
    /\ f.url.host = host
    /\ f.cookie = <<"login_user_token=", token>>
    /\ f.url.path[1] = "endpoint/@scrypted/core/api" => f.url.path[2] = token
C19_TokenBeforeDevices ==
    /\ [](/\ DOMAIN devices # {} => token # None /\ host # None
          /\ \A i \in 1..Len(rd.fetched) : CarriesLogin(rd.fetched[i])
          /\ resp # <<>> =>
                \A i \in 1..Len(resp[1].fetched) :
                    CarriesLogin(resp[1].fetched[i]))
    /\ [][/\ token # None => token' = token
          /\ host # None => host' = host]_vars
\* A snapshot was served from the hub's second URL.
C19_Witness ==
    /\ resp # <<>>
    /\ resp[1].path \in SnapshotPaths
    /\ resp[1].status = 200
    /\ Len(resp[1].fetched) = 2
    /\ token = <<<<"tok">>>>

MaxCommands == 2
MaxToolCalls == 2

\* The arguments of a tool call, as the model sends them: a dict, or a
\* string that json.loads parses or rejects.
LampOn == [name |-> "lamp", action |-> "on"]
ArgDict(v) == [type |-> "dict", val |-> v]
ArgStr(parses, v) == [type |-> "str", parses |-> parses, val |-> v]
ToolCallKinds ==
    {[function |-> [name |-> "list_devices"]],
     [function |-> [name |-> "control_device", arguments |-> ArgDict(LampOn)]],
     [function |-> [name |-> "control_device",
                    arguments |-> ArgStr(TRUE, LampOn)]],
     [function |-> [name |-> "control_device",
                    arguments |-> ArgStr(FALSE, EmptyDict)]]}
ToolCallLists ==
    UNION {[1..n -> ToolCallKinds] : n \in 0..MaxToolCalls}

\* response.json() of POST /api/chat: with or without "message", the
\* message with or without "content" and "tool_calls".
AssistantMessages ==
    {[role |-> "assistant", content |-> "text"], [role |-> "assistant"]}
        \cup {[role |-> "assistant", content |-> "", tool_calls |-> l] :
                 l \in ToolCallLists}
OllamaReplies ==
    {[error |-> "model not found"]}
        \cup {[message |-> m] : m \in AssistantMessages}
\* The replies to the call without tools; the model may still ask for tools.
FinalReplies ==
    {[error |-> "model not found"], [message |-> [role |-> "assistant"]],
     [message |-> [role |-> "assistant", content |-> "text"]]}
        \cup {[message |-> [role |-> "assistant", content |-> "",
                            tool_calls |-> <<k>>]] : k \in ToolCallKinds}

\* What _send returns for tools/call: None at end of file, or the parsed
\* line; the text of the first content item is JSON or is not.
Text(parses, v) == [text |-> [parses |-> parses, val |-> v]]
McpResponses ==
    {None,
     Some([error |-> "unknown tool"]),
     Some([result |-> [content |-> <<>>]]),
     Some([result |-> [content |-> <<Text(TRUE, [success |-> TRUE])>>]]),
     Some([result |-> [content |-> <<Text(FALSE, EmptyDict)>>]])}

\* The increment by two.
NextRequestId_Skipping(id) == id + 2
\* self.request_id += 1
NextRequestId(id) == id + 1

\* _send writes one request line: the id and the method.
Written(w, id, method) == Append(w, [id |-> id, method |-> method])

SystemMessage == [role |-> "system", content |-> "assistant prompt"]
UserMessage(user_input) == [role |-> "user", content |-> user_input]
ToolMessage(result) == [role |-> "tool", content |-> result]
NoMcpResponse == [error |-> "No response from MCP"]

\* tool_args of one tool call: function.get("arguments", {}), and json.loads
\* of a string, {} when it does not parse.
ToolArgs(tool_call) ==
    LET function == tool_call.function IN
    IF "arguments" \notin DOMAIN function THEN EmptyDict
    ELSE IF function.arguments.type = "str"
         THEN IF function.arguments.parses THEN function.arguments.val
              ELSE EmptyDict
    ELSE function.arguments.val

\* call_tool after _send: the parsed text of the first content item, an
\* exception of json.loads, or the error dict.
CallToolRaises(response) ==
    /\ response # None
    /\ "result" \in DOMAIN response[1]
    /\ response[1].result.content # <<>>
    /\ ~response[1].result.content[1].text.parses
CallToolResult(response) ==
    IF /\ response # None
       /\ "result" \in DOMAIN response[1]
       /\ response[1].result.content # <<>>
    THEN response[1].result.content[1].text.val
    ELSE NoMcpResponse

\* `"tool_calls" in assistant_message and assistant_message["tool_calls"]`
WantsTools(assistant_message) ==
    "tool_calls" \in DOMAIN assistant_message
        /\ assistant_message.tool_calls # <<>>

\* dict.get(key, default)
Get(d, key, default) == IF key \in DOMAIN d THEN d[key] ELSE default

\* One call of chat_with_ollama: the messages sent, with the tools or not.
Chat(msgs, tools) == [messages |-> msgs, tools |-> tools]

\* main: MCPClient(MCP_PATH) starts the subprocess and sends initialize and
\* notifications/initialized; then the command of the command line or the
\* interactive loop.
main_connect ==
    /\ opc = "main"
    /\ proc' = "running"
    /\ LET id1 == NextRequestId(0)
           id2 == NextRequestId(id1)
       IN /\ request_id' = id2
          /\ wire' = Written(Written(<<>>, id1, "initialize"), id2,
                             "notifications/initialized")
    /\ \E given \in BOOLEAN :
         /\ argv' = given
         /\ opc' = "command"
    /\ UNCHANGED <<ncommands, messages, chats, tool_calls, todo, executed,
                   ret, bridgeVars>>

\* main: Popen raises, sys.exit(1).
main_connect_failed ==
    /\ opc = "main"
    /\ opc' = "exit_1"
    /\ UNCHANGED <<proc, request_id, wire, argv, ncommands, messages, chats,
                   tool_calls, todo, executed, ret, bridgeVars>>

\* process_command is called with the next command: the messages list.
process_command(user_input) ==
    /\ opc = "command"
    /\ ncommands < MaxCommands
    /\ ncommands' = ncommands + 1
    /\ messages' = <<SystemMessage, UserMessage(user_input)>>
    /\ chats' = <<>>
    /\ tool_calls' = <<>>
    /\ todo' = <<>>
    /\ executed' = <<>>
    /\ ret' = None
    /\ opc' = "chat_first"
    /\ UNCHANGED <<proc, request_id, wire, argv, bridgeVars>>

\* process_command returns to main: mcp_client.close() after the command of
\* the command line, the next input otherwise.
Return(value) ==
    /\ ret' = Some(value)
    /\ opc' = IF argv THEN "exit_0" ELSE "command"
    /\ proc' = IF argv THEN "terminated" ELSE proc

\* An exception leaves process_command: the traceback ends the program;
\* only the interactive loop's finally closes the client.
Raise ==
    /\ opc' = "crashed"
    /\ proc' = IF argv THEN proc ELSE "terminated"
    /\ UNCHANGED ret

\* response = chat_with_ollama(messages, HOMEKIT_TOOLS) and the branches.
chat_first(response) ==
    /\ opc = "chat_first"
    /\ chats' = Append(chats, Chat(messages, TRUE))
    /\ IF "message" \notin DOMAIN response
       THEN /\ Return("Error communicating with Ollama")
            /\ UNCHANGED <<messages, tool_calls, todo>>
       ELSE LET assistant_message == response.message IN
            IF WantsTools(assistant_message)
            THEN /\ messages' = Append(messages, assistant_message)
                 /\ tool_calls' = assistant_message.tool_calls
                 /\ todo' = assistant_message.tool_calls
                 /\ opc' = "for"
                 /\ UNCHANGED <<proc, ret>>
            ELSE /\ Return(Get(assistant_message, "content",
                               "I'm not sure how to help with that."))
                 /\ UNCHANGED <<messages, tool_calls, todo>>
    /\ UNCHANGED <<request_id, wire, argv, ncommands, executed, bridgeVars>>

\* One iteration of `for tool_call in assistant_message["tool_calls"]`:
\* call_tool sends tools/call, and the result is appended as a tool message.
call_tool(response) ==
    /\ opc = "for"
    /\ todo # <<>>
    /\ LET tool_call == Head(todo)
           id == NextRequestId(request_id)
       IN /\ request_id' = id
          /\ wire' = Written(wire, id, "tools/call")
          /\ executed' = Append(executed,
                                [name |-> tool_call.function.name,
                                 arguments |-> ToolArgs(tool_call)])
    /\ IF CallToolRaises(response)
       THEN /\ Raise
            /\ UNCHANGED <<messages, todo>>
       ELSE /\ messages' = Append(messages,
                                  ToolMessage(CallToolResult(response)))
            /\ todo' = Tail(todo)
            /\ UNCHANGED <<opc, proc, ret>>
    /\ UNCHANGED <<argv, ncommands, chats, tool_calls, bridgeVars>>

\* final_response = chat_with_ollama(messages) and the return.
chat_final(final_response) ==
    /\ opc = "for"
    /\ todo = <<>>
    /\ chats' = Append(chats, Chat(messages, FALSE))
    /\ IF "message" \in DOMAIN final_response
       THEN Return(Get(final_response.message, "content", "Done."))
       ELSE Return("Done.")
    /\ UNCHANGED <<request_id, wire, argv, ncommands, messages, tool_calls,
                   todo, executed, bridgeVars>>

\* The interactive loop reads quit: break, then mcp_client.close().
main_quit ==
    /\ opc = "command"
    /\ ~argv
    /\ opc' = "exit_0"
    /\ proc' = "terminated"
    /\ UNCHANGED <<request_id, wire, argv, ncommands, messages, chats,
                   tool_calls, todo, executed, ret, bridgeVars>>

OllamaNext ==
    \/ main_connect
    \/ main_connect_failed
    \/ process_command("turn on the lamp")
    \/ \E response \in OllamaReplies : chat_first(response)
    \/ \E response \in McpResponses : call_tool(response)
    \/ \E final_response \in FinalReplies : chat_final(final_response)
    \/ main_quit

\* The bridge is a different process: it is left where it starts.
OllamaInit == Init /\ mode = "full" /\ has_socketio
OllamaSpec == OllamaInit /\ [][OllamaNext]_vars

\* C21: one call, branch, execute, resubmit cycle per command.  The model
\* is called once with the tools; without a tool request nothing is sent to
\* the MCP server and the model is not called again; with one, every
\* requested tool is called through the MCP client once, in the order of the
\* request, each adding one tool message after the assistant message, then
\* the model is called once more, without tools, and its reply is returned
\* whatever it asks for.  The MCP client numbers its requests 1, 2, 3, ...
\* and its first request is initialize.
ToolCallsOnWire == {i \in 1..Len(wire) : wire[i].method = "tools/call"}
====
